---- MODULE Spec2Model ----
(***************************************************************************)
(* Model of the first-network example: the module Net (network_class.py)   *)
(* and the script main.py that constructs one Net and prints it.           *)
(*                                                                         *)
(* A tensor is modelled by its shape and by the one value all its elements *)
(* share (uniform tensors): a uniform image convolved with a uniform       *)
(* kernel, pooled, flattened and passed through a uniform linear map stays *)
(* uniform, so the arithmetic of every stage is computed exactly for this  *)
(* family of inputs and parameters.                                        *)
(***************************************************************************)
EXTENDS Integers, Sequences, FiniteSets, TLC

\* ------------------------------------------------------------------ bounds
MaxBatch == 2      \* batch sizes 1 and MaxBatch
MaxDim == 12       \* image heights and widths 0..MaxDim
MaxClasses == 2    \* n_classes arguments -1..MaxClasses (library use)
MaxVal == 1        \* magnitude of the pixel values and of the parameters
MaxCalls == 2      \* forward calls counted up to MaxCalls

\* ------------------------------------------------- constants of the source
InChannels == 1        \* nn.Conv2d(1, 32, 5)
OutChannels == 32      \* nn.Conv2d(1, 32, 5)
KernelSize == 5        \* nn.Conv2d(1, 32, 5)
PoolKernel == 2        \* nn.MaxPool2d(2, 2)
PoolStride == 2        \* nn.MaxPool2d(2, 2)
InFeatures == 32 * 4   \* nn.Linear(32*4, n_classes)
MainClasses == 20      \* n_classes = 20 in main()

VARIABLES
    name,       \* __name__ of main.py: "__main__" (run as a script) or "main" (imported)
    mpc,        \* position of the script: "start", "constructed", "printed", "exit"
    stdout,     \* what print() has written, one entry per call
    exitcode,   \* exit status of the process, -1 while it runs
    nInit,      \* number of Net.__init__ calls so far
    arg,        \* the n_classes argument of the last Net.__init__ call
    cerr,       \* the error Net.__init__ raised, "" if none
    net,        \* the Net instance (NoNet before construction)
    net0,       \* the instance as it was when __init__ returned
    calls,      \* number of forward calls so far
    xin,        \* the input of the last forward call
    res         \* the outcome of the last forward call

vars == <<name, mpc, stdout, exitcode, nInit, arg, cerr, net, net0, calls, xin, res>>

\* ------------------------------------------------------------- tensors
Tensor(shape, val) == [shape |-> shape, val |-> val]

NoTensor == Tensor(<<>>, 0)

RECURSIVE Prod(_)
Prod(s) == IF s = <<>> THEN 1 ELSE Head(s) * Prod(Tail(s))

Numel(t) == Prod(t.shape)

Max(a, b) == IF a >= b THEN a ELSE b

\* the outcome of one layer: an error message or a tensor
Ok(t) == [err |-> "", t |-> t]
Fail(msg) == [err |-> msg, t |-> NoTensor]

\* ------------------------------------------------------------- layers
\* nn.Conv2d(in, out, k): stride 1, padding 0, dilation 1 by default
Conv2d(in, out, k, w, b) ==
    [type |-> "Conv2d", in_channels |-> in, out_channels |-> out,
     kernel_size |-> k, stride |-> 1, padding |-> 0, weight |-> w, bias |-> b]

\* nn.MaxPool2d(k, s): padding 0, dilation 1, ceil_mode False by default
MaxPool2d(k, s) ==
    [type |-> "MaxPool2d", kernel_size |-> k, stride |-> s, padding |-> 0,
     ceil_mode |-> FALSE]

\* variant: the two sizes taken in the wrong order
LinearSwapped(in, out, w, b) ==
    [type |-> "Linear", in_features |-> out, out_features |-> in,
     weight |-> w, bias |-> b]

\* nn.Linear(in, out): bias=True by default
Linear(in, out, w, b) ==
    [type |-> "Linear", in_features |-> in, out_features |-> out,
     weight |-> w, bias |-> b]

NoNet == [n_classes |-> -1, children |-> <<>>]

\* variant: the linear layer sized for a 4x4 pooled map (32*16 inputs)
Net__init__Wide(n_classes, w1, b1, w2, b2) ==
    IF n_classes < 0
    THEN [err |-> "negative dimension", net |-> NoNet]
    ELSE [err |-> "",
          net |-> [n_classes |-> n_classes,
                   children |-> <<"conv1", "pool", "fcl">>,
                   conv1 |-> Conv2d(InChannels, OutChannels, KernelSize, w1, b1),
                   pool |-> MaxPool2d(PoolKernel, PoolStride),
                   fcl |-> Linear(32 * 16, n_classes, w2, b2)]]

\* variant: the convolution built with 16 feature maps instead of 32
Net__init__HalfChannels(n_classes, w1, b1, w2, b2) ==
    IF n_classes < 0
    THEN [err |-> "negative dimension", net |-> NoNet]
    ELSE [err |-> "",
          net |-> [n_classes |-> n_classes,
                   children |-> <<"conv1", "pool", "fcl">>,
                   conv1 |-> Conv2d(InChannels, 16, KernelSize, w1, b1),
                   pool |-> MaxPool2d(PoolKernel, PoolStride),
                   fcl |-> Linear(InFeatures, n_classes, w2, b2)]]

\* variant: a constructor that insists on at least one class
Net__init__Validating(n_classes, w1, b1, w2, b2) ==
    IF n_classes < 1
    THEN [err |-> "n_classes must be positive", net |-> NoNet]
    ELSE [err |-> "",
          net |-> [n_classes |-> n_classes,
                   children |-> <<"conv1", "pool", "fcl">>,
                   conv1 |-> Conv2d(InChannels, OutChannels, KernelSize, w1, b1),
                   pool |-> MaxPool2d(PoolKernel, PoolStride),
                   fcl |-> Linear(InFeatures, n_classes, w2, b2)]]

\* Net.__init__: registers conv1, pool and fcl in this order.  The framework
\* refuses to allocate a weight of negative size; nothing else is validated.
Net__init__(n_classes, w1, b1, w2, b2) ==
    IF n_classes < 0
    THEN [err |-> "negative dimension", net |-> NoNet]
    ELSE [err |-> "",
          net |-> [n_classes |-> n_classes,
                   children |-> <<"conv1", "pool", "fcl">>,
                   conv1 |-> Conv2d(InChannels, OutChannels, KernelSize, w1, b1),
                   pool |-> MaxPool2d(PoolKernel, PoolStride),
                   fcl |-> Linear(InFeatures, n_classes, w2, b2)]]

\* self.conv1(x): every output element is the sum of in_channels*k*k products
\* plus the bias; the spatial size shrinks by k-1 (stride 1, no padding).
Conv2dForward(l, x) ==
    LET h == x.shape[3] + 2 * l.padding
        w == x.shape[4] + 2 * l.padding
    IN  IF x.shape[2] # l.in_channels THEN Fail("channel mismatch")
        ELSE IF h < l.kernel_size \/ w < l.kernel_size
        THEN Fail("kernel size can't be greater than actual input size")
        ELSE Ok(Tensor(<<x.shape[1], l.out_channels,
                         (h - l.kernel_size) \div l.stride + 1,
                         (w - l.kernel_size) \div l.stride + 1>>,
                       l.in_channels * l.kernel_size * l.kernel_size
                           * l.weight * x.val + l.bias))

\* variant: the activation left out
ReluIdentity(x) == Tensor(x.shape, x.val)

\* F.relu: max(0, v) element-wise
Relu(x) == Tensor(x.shape, Max(0, x.val))

\* variant: pooling in ceil mode, ceil((n - k) / s) + 1 windows per axis
MaxPool2dForwardCeil(l, x) ==
    LET oh == (x.shape[3] + 2 * l.padding - l.kernel_size + l.stride - 1) \div l.stride + 1
        ow == (x.shape[4] + 2 * l.padding - l.kernel_size + l.stride - 1) \div l.stride + 1
    IN  IF oh < 1 \/ ow < 1 THEN Fail("output size is too small")
        ELSE Ok(Tensor(<<x.shape[1], x.shape[2], oh, ow>>, x.val))

\* self.pool(x): floor((n - k) / s) + 1 windows per axis; an empty output is
\* refused by the framework.  The maximum over a window of equal elements is
\* that element.
MaxPool2dForward(l, x) ==
    LET oh == (x.shape[3] + 2 * l.padding - l.kernel_size) \div l.stride + 1
        ow == (x.shape[4] + 2 * l.padding - l.kernel_size) \div l.stride + 1
    IN  IF oh < 1 \/ ow < 1 THEN Fail("output size is too small")
        ELSE Ok(Tensor(<<x.shape[1], x.shape[2], oh, ow>>, x.val))

\* variant: x.view(1, -1), the batch folded into the feature axis
ViewAll(x) == Tensor(<<1, Numel(x)>>, x.val)

\* x.view(x.size(0), -1): the second dimension is inferred from the element count
View(x) == Tensor(<<x.shape[1], Numel(x) \div x.shape[1]>>, x.val)

\* variant: a linear map that accepts a feature axis of any size
LinearForwardUnchecked(l, x) ==
    Ok(Tensor(<<x.shape[1], l.out_features>>,
              x.shape[Len(x.shape)] * l.weight * x.val + l.bias))

\* self.fcl(x): the last dimension must equal in_features; every output element
\* is the sum of in_features products plus the bias.
LinearForward(l, x) ==
    IF x.shape[Len(x.shape)] # l.in_features THEN Fail("shape mismatch")
    ELSE Ok(Tensor(<<x.shape[1], l.out_features>>,
                   l.in_features * l.weight * x.val + l.bias))

\* ------------------------------------------------------------- forward
Stage(op, t) == [op |-> op, shape |-> t.shape, val |-> t.val]

Raised(at, msg, stages) ==
    [status |-> "raised", at |-> at, error |-> msg, out |-> NoTensor, stages |-> stages]

Returned(t, stages) ==
    [status |-> "returned", at |-> "", error |-> "", out |-> t, stages |-> stages]

NoResult == [status |-> "none", at |-> "", error |-> "", out |-> NoTensor, stages |-> <<>>]

\* Net.forward: conv1, relu, pool, view, fcl, relu; no try/except, so whatever a
\* layer raises leaves forward as it is.  stages lists the value of x after each
\* step that completed.
NetForward(n, x) ==
    LET c == Conv2dForward(n.conv1, x) IN
    IF c.err # "" THEN Raised("conv1", c.err, <<>>) ELSE
    LET r1 == Relu(c.t)
        s2 == <<Stage("conv1", c.t), Stage("relu", r1)>>
        p == MaxPool2dForward(n.pool, r1) IN
    IF p.err # "" THEN Raised("pool", p.err, s2) ELSE
    LET v == View(p.t)
        s4 == s2 \o <<Stage("pool", p.t), Stage("view", v)>>
        f == LinearForward(n.fcl, v) IN
    IF f.err # "" THEN Raised("fcl", f.err, s4) ELSE
    LET r2 == Relu(f.t)
        s6 == s4 \o <<Stage("fcl", f.t), Stage("relu", r2)>>
    IN  Returned(r2, s6)

\* print(net): one line per registered child, in registration order
Repr(n) ==
    [i \in 1..Len(n.children) |->
        LET l == n[n.children[i]] IN
        IF l.type = "Conv2d"
        THEN <<n.children[i], l.type, l.in_channels, l.out_channels, l.kernel_size>>
        ELSE IF l.type = "MaxPool2d"
        THEN <<n.children[i], l.type, l.kernel_size, l.stride>>
        ELSE <<n.children[i], l.type, l.in_features, l.out_features>>]

\* ------------------------------------------------------------- inputs
\* the random initialisation of one layer: a <<weight, bias>> pair, of either
\* sign each
InitDraws == {<<MaxVal, -MaxVal>>, <<-MaxVal, MaxVal>>}
\* the value of the pixels of the (uniform) input image; the parameters carry
\* the signs, so the values entering both activations are of either sign
PixelVals == {MaxVal}
ClassArgs == -1..MaxClasses
Inputs ==
    {Tensor(<<b, InChannels, h, w>>, v) :
        b \in {1, MaxBatch}, h \in 0..MaxDim, w \in 0..MaxDim, v \in PixelVals}

\* ------------------------------------------------------------- actions
Init ==
    /\ name \in {"__main__", "main"}
    /\ mpc = "start"
    /\ stdout = <<>>
    /\ exitcode = -1
    /\ nInit = 0
    /\ arg = -1
    /\ cerr = ""
    /\ net = NoNet
    /\ net0 = NoNet
    /\ calls = 0
    /\ xin = NoTensor
    /\ res = NoResult

\* variant: main() with another hard-coded number of classes
MainConstructTen ==
    /\ name = "__main__"
    /\ mpc = "start"
    /\ \E p1 \in InitDraws, p2 \in InitDraws :
        LET r == Net__init__(10, p1[1], p1[2], p2[1], p2[2]) IN
        /\ nInit' = nInit + 1
        /\ arg' = 10
        /\ cerr' = r.err
        /\ net' = r.net
        /\ net0' = r.net
        /\ IF r.err = ""
           THEN mpc' = "constructed" /\ exitcode' = exitcode
           ELSE mpc' = "exit" /\ exitcode' = 1
    /\ UNCHANGED <<name, stdout, calls, xin, res>>

\* main(), lines 8-9: n_classes = 20; net = Net(n_classes).  An error raised by
\* the constructor is not caught: the process ends with status 1.
MainConstruct ==
    /\ name = "__main__"
    /\ mpc = "start"
    /\ \E p1 \in InitDraws, p2 \in InitDraws :
        LET r == Net__init__(MainClasses, p1[1], p1[2], p2[1], p2[2]) IN
        /\ nInit' = nInit + 1
        /\ arg' = MainClasses
        /\ cerr' = r.err
        /\ net' = r.net
        /\ net0' = r.net
        /\ IF r.err = ""
           THEN mpc' = "constructed" /\ exitcode' = exitcode
           ELSE mpc' = "exit" /\ exitcode' = 1
    /\ UNCHANGED <<name, stdout, calls, xin, res>>

\* main(), line 10: print(net)
MainPrint ==
    /\ name = "__main__"
    /\ mpc = "constructed"
    /\ stdout' = Append(stdout, Repr(net))
    /\ mpc' = "printed"
    /\ UNCHANGED <<name, exitcode, nInit, arg, cerr, net, net0, calls, xin, res>>

\* main() returns and the script ends
MainExit ==
    /\ name = "__main__"
    /\ mpc = "printed"
    /\ mpc' = "exit"
    /\ exitcode' = 0
    /\ UNCHANGED <<name, stdout, nInit, arg, cerr, net, net0, calls, xin, res>>

\* a caller that imported the module constructs one Net
Construct(n_classes) ==
    /\ name = "main"
    /\ nInit = 0
    /\ \E p1 \in InitDraws, p2 \in InitDraws :
        LET r == Net__init__(n_classes, p1[1], p1[2], p2[1], p2[2]) IN
        /\ cerr' = r.err
        /\ net' = r.net
        /\ net0' = r.net
    /\ nInit' = nInit + 1
    /\ arg' = n_classes
    /\ UNCHANGED <<name, mpc, stdout, exitcode, calls, xin, res>>

\* variant: a forward pass that also adjusts the linear bias, as a training
\* step would
ForwardTraining(x) ==
    /\ name = "main"
    /\ nInit = 1
    /\ cerr = ""
    /\ calls < MaxCalls
    /\ res' = NetForward(net, x)
    /\ xin' = x
    /\ calls' = calls + 1
    /\ net' = [net EXCEPT !.fcl.bias = -@]
    /\ UNCHANGED <<name, mpc, stdout, exitcode, nInit, arg, cerr, net0>>

\* a caller applies the constructed Net to an input: forward reads the module
\* and writes nothing but its result
Forward(x) ==
    /\ name = "main"
    /\ nInit = 1
    /\ cerr = ""
    /\ calls < MaxCalls
    /\ res' = NetForward(net, x)
    /\ xin' = x
    /\ calls' = calls + 1
    /\ UNCHANGED <<name, mpc, stdout, exitcode, nInit, arg, cerr, net, net0>>

Next ==
    \/ MainConstruct
    \/ MainPrint
    \/ MainExit
    \/ \E n \in ClassArgs : Construct(n)
    \/ \E x \in Inputs : Forward(x)

Spec == Init /\ [][Next]_vars

TypeOK ==
    /\ name \in {"__main__", "main"}
    /\ mpc \in {"start", "constructed", "printed", "exit"}
    /\ exitcode \in {-1, 0, 1}
    /\ nInit \in 0..1
    /\ calls \in 0..MaxCalls
    /\ res.status \in {"none", "returned", "raised"}

\* ------------------------------------------------------------- properties
Called == calls > 0
Constructed == nInit = 1 /\ cerr = ""
InB == xin.shape[1]
InH == xin.shape[3]
InW == xin.shape[4]
NStages == Len(res.stages)

\* the flattened feature size as the specification writes it
FlatFormula(h, w) == 32 * ((h - 4) \div 2) * ((w - 4) \div 2)

\* the pooled feature map exists and was flattened
Flattened == NStages >= 4

\* C1 as stated: for an input of shape (1, 1, 12, 12) and any positive
\* n_classes, forward succeeds and returns a tensor of shape (1, n_classes).
C1_Original ==
    (Called /\ xin.shape = <<1, 1, 12, 12>> /\ net.n_classes > 0)
        => (res.status = "returned" /\ res.out.shape = <<1, net.n_classes>>)

\* C1 amended: for an input of shape (1, 1, 8, 8) and any positive n_classes,
\* forward succeeds and returns a tensor of shape (1, n_classes); an input of
\* shape (1, 1, 12, 12) is flattened to 512 features and forward raises the
\* shape mismatch of the linear layer.
C1_Amended ==
    (Called /\ net.n_classes > 0) =>
        /\ xin.shape = <<1, 1, 8, 8>> =>
              (res.status = "returned" /\ res.out.shape = <<1, net.n_classes>>)
        /\ xin.shape = <<1, 1, 12, 12>> =>
              /\ res.status = "raised" /\ res.at = "fcl" /\ res.error = "shape mismatch"
              /\ res.stages[4].shape = <<1, 512>>

C1_Witness ==
    /\ Called /\ net.n_classes > 0
    /\ xin.shape = <<1, 1, 8, 8>>
    /\ res.status = "returned"

\* C2: for batch >= 1, n_classes >= 1 and an input (batch, 1, H, W) whose
\* flattened pooled feature map has 128 elements per image, forward returns a
\* tensor of shape exactly (batch, n_classes).
C2_OutputShape ==
    (Called /\ net.n_classes >= 1 /\ InB >= 1 /\ Flattened /\ FlatFormula(InH, InW) = 128)
        => (res.status = "returned" /\ res.out.shape = <<InB, net.n_classes>>)

C2_Witness ==
    /\ Called /\ net.n_classes >= 1
    /\ InB > 1 /\ InH = 6 /\ InW = 12
    /\ res.status = "returned"
    /\ res.out.shape = <<InB, net.n_classes>>

\* C3 as stated: for H, W >= 5 and a flattened feature size other than 128,
\* forward ends in the shape mismatch raised at the linear layer, returns no
\* tensor, and the error reaches the caller as raised.
C3_Original ==
    (Called /\ InH >= 5 /\ InW >= 5 /\ FlatFormula(InH, InW) # 128)
        => /\ res.status = "raised" /\ res.at = "fcl" /\ res.error = "shape mismatch"
           /\ res.out = NoTensor

\* C3 amended: the same for H, W >= 6 (a 5-row or 5-column image leaves the
\* convolution with one row or column, which the pooling layer refuses).
C3_Amended ==
    (Called /\ InH >= 6 /\ InW >= 6 /\ FlatFormula(InH, InW) # 128)
        => /\ res.status = "raised" /\ res.at = "fcl" /\ res.error = "shape mismatch"
           /\ res.out = NoTensor

C3_Witness ==
    /\ Called /\ InH >= 6 /\ InW >= 6 /\ FlatFormula(InH, InW) # 128
    /\ res.status = "raised" /\ res.at = "fcl"

\* the linear layer accepted its input
PassedLinear == NStages >= 5

\* C4 as stated: forward passes the size check of the linear layer if and only
\* if convolution and pooling reduce the image to exactly 2 rows and 2 columns.
C4_Original ==
    Called =>
        (PassedLinear <=>
            (NStages >= 3 /\ res.stages[3].shape[3] = 2 /\ res.stages[3].shape[4] = 2))

\* C4 amended: forward passes the size check of the linear layer if and only if
\* the pooled feature map has 4 elements per channel (2x2, 1x4 or 4x1).
C4_Amended ==
    Called =>
        (PassedLinear <=>
            (NStages >= 3 /\ res.stages[3].shape[3] * res.stages[3].shape[4] = 4))

C4_Witness ==
    /\ Called /\ PassedLinear
    /\ res.stages[3].shape[3] = 1 /\ res.stages[3].shape[4] = 4

\* C5: whenever forward returns a tensor, every element of it is >= 0.
C5_NonNegative ==
    (Called /\ res.status = "returned") => res.out.val >= 0

C5_Witness ==
    /\ Called /\ res.status = "returned"
    /\ Numel(res.out) > 0
    /\ res.stages[5].val < 0
    /\ res.out.val = 0

\* C6: for every positive n_classes the construction succeeds; the linear layer
\* maps 128 inputs to n_classes outputs, the convolution is 1 -> 32 channels
\* with a 5x5 kernel, the pooling is 2x2 with stride 2.
C6_Construction ==
    (nInit = 1 /\ arg > 0) =>
        /\ cerr = ""
        /\ net.fcl.in_features = 128 /\ net.fcl.out_features = arg
        /\ net.conv1.in_channels = 1 /\ net.conv1.out_channels = 32
        /\ net.conv1.kernel_size = 5
        /\ net.pool.kernel_size = 2 /\ net.pool.stride = 2

C6_Witness ==
    /\ name = "main" /\ nInit = 1 /\ arg > 0 /\ cerr = ""
    /\ net.fcl.out_features = arg

\* C7: Net(0) raises no error, and its forward pass, on an input whose flattened
\* feature map has 128 elements, returns a tensor of shape (batch, 0).
C7_ZeroClasses ==
    (nInit = 1 /\ arg = 0) =>
        /\ cerr = ""
        /\ net.fcl.out_features = 0
        /\ (Called /\ Flattened /\ FlatFormula(InH, InW) = 128)
              => (res.status = "returned" /\ res.out.shape = <<InB, 0>>)

C7_Witness ==
    /\ nInit = 1 /\ arg = 0 /\ cerr = ""
    /\ Called /\ res.status = "returned"
    /\ res.out.shape = <<InB, 0>>

\* what print(net) shows for Net(20)
Repr20 ==
    << <<"conv1", "Conv2d", 1, 32, 5>>,
       <<"pool", "MaxPool2d", 2, 2>>,
       <<"fcl", "Linear", 128, 20>> >>

\* C8: the script constructs exactly one Net, with n_classes = 20, then prints
\* its representation exactly once, never calls forward, and ends with exit
\* code 0; nothing is printed before the construction has completed, and a
\* failed construction prints nothing and ends with a non-zero status.  The
\* script is never stuck before its exit.
C8_Main ==
    name = "__main__" =>
        /\ calls = 0
        /\ nInit <= 1
        /\ nInit = 1 => arg = 20
        /\ Len(stdout) <= 1
        /\ Len(stdout) > 0 => (Constructed /\ mpc \in {"printed", "exit"})
        /\ (mpc = "exit" /\ cerr = "") =>
              (exitcode = 0 /\ nInit = 1 /\ stdout = <<Repr20>>)
        /\ cerr # "" => (stdout = <<>> /\ mpc = "exit" /\ exitcode > 0)
        /\ mpc # "exit" => (exitcode = -1 /\ ENABLED (MainConstruct \/ MainPrint \/ MainExit))

C8_Witness ==
    /\ name = "__main__" /\ mpc = "exit" /\ exitcode = 0
    /\ stdout = <<Repr20>>

StageOrder == <<"conv1", "relu", "pool", "view", "fcl", "relu">>

\* C9: forward applies convolution, activation, pooling, flatten, linear,
\* activation in this order; the shapes are (batch, 32, H-4, W-4) after the
\* convolution and the activation, (batch, 32, floor((H-4)/2), floor((W-4)/2))
\* after pooling and (batch, 32*floor((H-4)/2)*floor((W-4)/2)) after
\* flattening, which keeps the batch dimension and the element count.
C9_Stages ==
    Called =>
        /\ [i \in 1..NStages |-> res.stages[i].op] = SubSeq(StageOrder, 1, NStages)
        /\ res.status = "returned" <=> NStages = 6
        /\ NStages >= 2 =>
              /\ res.stages[1].shape = <<InB, 32, InH - 4, InW - 4>>
              /\ res.stages[2].shape = <<InB, 32, InH - 4, InW - 4>>
        /\ NStages >= 4 =>
              /\ res.stages[3].shape = <<InB, 32, (InH - 4) \div 2, (InW - 4) \div 2>>
              /\ res.stages[4].shape = <<InB, FlatFormula(InH, InW)>>
              /\ res.stages[4].shape[1] = res.stages[3].shape[1]
              /\ Prod(res.stages[4].shape) = Prod(res.stages[3].shape)

C9_Witness ==
    /\ Called /\ NStages = 6
    /\ InH = 9 /\ InW = 8 /\ InB > 1

\* C10: forward only reads the module: after any sequence of forward calls,
\* returned or failed, the parameters and the layer configuration are those of
\* the construction, and the outcome of a call is the one the module as
\* constructed gives for that input, whatever calls ran before.
C10_PureRead ==
    (name = "main" /\ Constructed) =>
        /\ net = net0
        /\ Called => res = NetForward(net0, xin)

C10_Witness ==
    /\ name = "main" /\ Constructed
    /\ calls >= 2
    /\ res.status = "returned"
    /\ net = net0


====
